---- MODULE Spec2Model ----
(***************************************************************************)
(* rabo2ofx: conversion of a Rabobank CSV export into an OFX statement.    *)
(*                                                                         *)
(* Text values (account numbers, dates, amounts, booking codes, ...) are   *)
(* sequences of one-character strings, so that Python's str.replace,       *)
(* str.strip, str.startswith, string comparison, float() and str() are     *)
(* computed character by character, as the source computes them.           *)
(***************************************************************************)
EXTENDS Naturals, Integers, Sequences, FiniteSets, Bags, TLC

(***************************************************************************)
(* Bounds of the model.                                                    *)
(***************************************************************************)
\* longest CSV body (rows after the header line) of a multi-row run
MaxRows == 3
\* most calls of map_fitid in the identifier-generator specification
MaxCalls == 12
\* most successive applications of map_amount in the amount specification
MaxChain == 3

(***************************************************************************)
(* Python string primitives on sequences of characters.                    *)
(***************************************************************************)
\* the characters the model uses, in ascending code-point order
CodePoints ==
    << "\t", " ", "&", "+", ",", "-", ".",
       "0", "1", "2", "3", "4", "5", "6", "7", "8", "9",
       "A", "B", "C", "D", "Q", "X", "[", "]",
       "a", "b", "c", "d", "e", "g", "i", "k", "l", "m", "n", "o", "p",
       "r", "s", "t", "v", "x" >>

Ord(c) == CHOOSE i \in 1..Len(CodePoints) : CodePoints[i] = c

Digits == <<"0", "1", "2", "3", "4", "5", "6", "7", "8", "9">>

IsDigit(c) == \E i \in 1..10 : Digits[i] = c

DigitVal(c) == (CHOOSE i \in 1..10 : Digits[i] = c) - 1

\* str.replace(old, new) for a one-character old: every occurrence is replaced
RECURSIVE Replace(_, _, _)
Replace(s, old, new) ==
    IF s = <<>> THEN <<>>
    ELSE (IF Head(s) = old THEN new ELSE <<Head(s)>>) \o Replace(Tail(s), old, new)

\* str.startswith(c) for a one-character c
StartsWith(s, c) == Len(s) > 0 /\ s[1] = c

\* whitespace as str.strip() and float() understand it (the model's alphabet
\* holds the tab and the blank)
IsSpace(c) == c \in {"\t", " "}

RECURSIVE LStrip(_)
LStrip(s) == IF s # <<>> /\ IsSpace(Head(s)) THEN LStrip(Tail(s)) ELSE s

RECURSIVE RStrip(_)
RStrip(s) ==
    IF s # <<>> /\ IsSpace(s[Len(s)]) THEN RStrip(SubSeq(s, 1, Len(s) - 1)) ELSE s

\* str.strip()
Strip(s) == RStrip(LStrip(s))

\* a > b on Python strings: lexicographic by code point, a proper prefix is smaller
RECURSIVE StrGreater(_, _)
StrGreater(a, b) ==
    IF a = <<>> THEN FALSE
    ELSE IF b = <<>> THEN TRUE
    ELSE IF Head(a) # Head(b) THEN Ord(Head(a)) > Ord(Head(b))
    ELSE StrGreater(Tail(a), Tail(b))

\* str(n) for a natural number n
RECURSIVE Str(_)
Str(n) == IF n < 10 THEN <<Digits[n + 1]>> ELSE Str(n \div 10) \o <<Digits[(n % 10) + 1]>>

\* the digits and the point of a float literal, after blanks and sign are taken off
FloatBody(s) ==
    LET t == Strip(s)
    IN  IF t # <<>> /\ t[1] \in {"-", "+"} THEN Tail(t) ELSE t

\* float(s) succeeds (no ValueError). Over the model's alphabet a float literal
\* is: blanks, an optional sign, digits with at most one point and at least one
\* digit, blanks. A comma, a letter or an inner blank is a ValueError.
FloatOk(s) ==
    LET b == FloatBody(s)
    IN  /\ \A i \in 1..Len(b) : IsDigit(b[i]) \/ b[i] = "."
        /\ \E i \in 1..Len(b) : IsDigit(b[i])
        /\ Cardinality({i \in 1..Len(b) : b[i] = "."}) <= 1

\* float(s) >= 0, for an s that float() accepts (-0.0 >= 0 is true)
FloatNonNeg(s) ==
    LET t == Strip(s)
        b == FloatBody(s)
    IN  \/ ~ StartsWith(t, "-")
        \/ \A i \in 1..Len(b) : b[i] \in {"0", "."}

\* int(s) succeeds, for the digit strings of the model
IntOk(s) == Len(s) > 0 /\ \A i \in 1..Len(s) : IsDigit(s[i])

\* int(s)
RECURSIVE ParseInt(_)
ParseInt(s) ==
    IF s = <<>> THEN 0 ELSE ParseInt(SubSeq(s, 1, Len(s) - 1)) * 10 + DigitVal(s[Len(s)])

\* str.upper() on one character
LowerCase == <<"a", "b", "c", "d", "e", "g", "i", "k", "l", "m", "n", "o", "p",
               "r", "s", "t", "v", "x">>
UpperCase == <<"A", "B", "C", "D", "E", "G", "I", "K", "L", "M", "N", "O", "P",
               "R", "S", "T", "V", "X">>

UpperChar(c) ==
    IF \E i \in 1..Len(LowerCase) : LowerCase[i] = c
    THEN UpperCase[CHOOSE i \in 1..Len(LowerCase) : LowerCase[i] = c]
    ELSE c

\* str.upper()
Upper(s) == [i \in 1..Len(s) |-> UpperChar(s[i])]

(***************************************************************************)
(* Field Mapper: CsvFile.map_* (one raw CSV row to OFX field values).      *)
(* Every map_* returns a tuple whose first element is the number of        *)
(* overrides it applied.                                                   *)
(***************************************************************************)
\* CsvFile.bookcode["db"]
bookcode_db == <<"d", "i", "v", "e", "r", "s", "e", " ",
                 "b", "o", "e", "k", "i", "n", "g", "e", "n">>

map_account(row) == <<0, Replace(row.acctNr, " ", <<>>)>>

\* mutant: the booking-code table is left out, the sign alone decides
map_transaction_type_by_sign(row) ==
    <<0, IF StartsWith(row.amount, "-") THEN "DEBIT" ELSE "CREDIT">>

map_transaction_type(row) ==
    LET code == row.bookCode
        trntype ==
            IF code = <<"a", "c">> THEN "XFER"
            ELSE IF code = <<"b", "a">> THEN "POS"
            ELSE IF code = <<"b", "c">> THEN "POS"
            ELSE IF code = <<"b", "g">> THEN "XFER"
            ELSE IF code = <<"c", "b">> THEN "XFER"
            ELSE IF code = <<"c", "k">> THEN "POS"
            ELSE IF code = <<"d", "b">> THEN "OTHER"
            ELSE IF code = <<"e", "b">> THEN "DIRECTDEBIT"
            ELSE IF code = <<"e", "i">> THEN "DIRECTDEBIT"
            ELSE IF code = <<"g", "a">> THEN "ATM"
            ELSE IF code = <<"g", "b">> THEN "ATM"
            ELSE IF code = <<"i", "d">> THEN "PAYMENT"
            ELSE IF code = <<"m", "a">> THEN "DIRECTDEBIT"
            ELSE IF code = <<"s", "b">> THEN "XFER"
            ELSE IF code = <<"t", "b">> THEN "XFER"
            ELSE IF StartsWith(row.amount, "-") THEN "DEBIT"
            ELSE "CREDIT"
    IN  <<0, trntype>>

\* overrides['force_date_posted'] raises KeyError when the key is absent
map_date_posted_raises(row, overrides) == "force_date_posted" \notin DOMAIN overrides

\* mutant: the transaction date is substituted but the override is not counted
map_date_posted_uncounted(row, overrides) ==
    LET forced == /\ overrides["force_date_posted"] # <<>>
                  /\ row.interestDate # row.Date
    IN  <<0, Replace(IF forced THEN row.Date ELSE row.interestDate, "-", <<>>)>>

\* a Python string is true when it is not empty
map_date_posted(row, overrides) ==
    LET forced == /\ overrides["force_date_posted"] # <<>>
                  /\ row.interestDate # row.Date
        date == IF forced THEN row.Date ELSE row.interestDate
    IN  <<IF forced THEN 1 ELSE 0, Replace(date, "-", <<>>)>>

\* mutant: under point preference the comma is dropped instead of replaced
map_amount_dropping_comma(row, dec_comma) ==
    <<0, IF dec_comma THEN Replace(row.amount, ".", <<",">>)
         ELSE Replace(row.amount, ",", <<>>)>>

map_amount(row, dec_comma) ==
    <<0, IF dec_comma THEN Replace(row.amount, ".", <<",">>)
         ELSE Replace(row.amount, ",", <<".">>)>>

\* float(trnamt) raises ValueError
map_fitid_raises(trnamt) == ~ FloatOk(trnamt)

\* mutant: the modern key form starts one day early (>= instead of >)
fitid_key_from_20171231(account, volgnr, trnamt, dtposted) ==
    LET dc_code == IF FloatNonNeg(trnamt) THEN "C" ELSE "D"
    IN  IF volgnr # <<>> /\ StrGreater(dtposted, <<"2", "0", "1", "7", "1", "2", "3", "0">>)
        THEN account \o volgnr
        ELSE dtposted
             \o Replace(Replace(Replace(Replace(trnamt, ",", <<>>), ".", <<>>), "-", <<>>),
                        "+", <<>>)
             \o <<dc_code>>

\* the key of map_fitid (lines 407-421)
fitid_key(account, volgnr, trnamt, dtposted) ==
    LET dc_code == IF FloatNonNeg(trnamt) THEN "C" ELSE "D"
    IN  IF volgnr # <<>> /\ StrGreater(dtposted, <<"2", "0", "1", "7", "1", "2", "3", "1">>)
        THEN account \o volgnr
        ELSE dtposted
             \o Replace(Replace(Replace(Replace(trnamt, ",", <<>>), ".", <<>>), "-", <<>>),
                        "+", <<>>)
             \o <<dc_code>>

\* mutant: a key seen before gets its stored number again, not the next one
fitid_sequence_not_incremented(counters, key) ==
    IF key \in DOMAIN counters THEN counters[key] ELSE 0

\* the sequence number map_fitid appends (lines 423-426); counters is self.fitid
fitid_sequence(counters, key) == IF key \in DOMAIN counters THEN counters[key] + 1 ELSE 0

\* map_fitid: the identifier returned and self.fitid afterwards
map_fitid(counters, account, volgnr, trnamt, dtposted) ==
    LET key == fitid_key(account, volgnr, trnamt, dtposted)
        sequence == fitid_sequence(counters, key)
    IN  [fitid |-> key \o Str(sequence),
         counters |-> [k \in DOMAIN counters \cup {key} |->
                           IF k = key THEN sequence ELSE counters[k]]]

map_account_to(row) == <<0, row.counterAcctNr>>

\* mutant: no booking code gets a description of its own
map_memo_name_without_rules(row) ==
    <<0,
      row.counterAcctNr
      \o (IF row.counterAcctNr # <<>> /\ row.counterAcctName # <<>> THEN <<" ">> ELSE <<>>)
      \o row.counterAcctName,
      Replace(Strip(row.descr1 \o row.descr2 \o row.descr3), "&", <<"&", "a", "m", "p">>)>>

map_memo_name(row) ==
    LET glue0 == IF row.counterAcctNr # <<>> /\ row.counterAcctName # <<>>
                 THEN <<" ">> ELSE <<>>
        name0 == row.counterAcctNr \o glue0 \o row.counterAcctName
        descr0 == Strip(row.descr1 \o row.descr2 \o row.descr3)
        name == IF row.bookCode = <<"b", "a">> /\ name0 = <<>> THEN row.descr1
                ELSE IF row.bookCode = <<"d", "b">>
                     THEN <<"[">> \o row.bookCode \o <<"]", " ">> \o bookcode_db
                          \o (IF name0 # <<>> THEN <<" ">> ELSE <<>>) \o name0
                ELSE name0
        descr == IF row.bookCode = <<"b", "a">> /\ name0 = <<>>
                 THEN row.descr2 \o row.descr3
                 ELSE IF row.bookCode = <<"d", "b">> THEN descr0
                 ELSE IF row.bookCode = <<"a", "c">>
                      THEN descr0
                           \o <<"b", "e", "t", "a", "l", "i", "n", "g", "s",
                                "k", "e", "n", "m", "e", "r", "k", " ">>
                           \o row.betalingskenmerk
                 ELSE descr0
    IN  <<0, name, Replace(descr, "&", <<"&", "a", "m", "p">>)>>

\* mutant: an amount that is no number does not stop create_ofx
create_ofx_raises_on_date_only(row, overrides, dec_comma) ==
    map_date_posted_raises(row, overrides)

\* create_ofx raises (KeyError in map_date_posted, ValueError in map_fitid)
create_ofx_raises(row, overrides, dec_comma) ==
    \/ map_date_posted_raises(row, overrides)
    \/ map_fitid_raises(map_amount(row, dec_comma)[2])

\* create_ofx: the mapped transaction and self.fitid afterwards
create_ofx(row, overrides, dec_comma, counters) ==
    LET account == map_account(row)
        trntype == map_transaction_type(row)
        dtposted == map_date_posted(row, overrides)
        trnamt == map_amount(row, dec_comma)
        id == map_fitid(counters, account[2], row.serNr, trnamt[2], dtposted[2])
        accountto == map_account_to(row)
        memoname == map_memo_name(row)
    IN  [ofx_data |->
            [account |-> account[2], trntype |-> trntype[2], dtposted |-> dtposted[2],
             trnamt |-> trnamt[2], fitid |-> id.fitid, name |-> memoname[2],
             accountto |-> accountto[2], memo |-> memoname[3],
             nr_overrides |-> account[1] + trntype[1] + dtposted[1] + trnamt[1]
                              + accountto[1] + memoname[1]],
         counters |-> id.counters]

(***************************************************************************)
(* Transfer Classifier: Cfg.main_accounts, OfxWriter.gather_transfer_accounts *)
(***************************************************************************)
Range(seq) == {seq[i] : i \in 1..Len(seq)}

\* mutant: the loop does not stop at the account itself, it only leaves it out
main_accounts_without_break(ordering, account) ==
    {ordering[i] : i \in {j \in 1..Len(ordering) : ordering[j] # account}}

\* the accounts of the configured ordering up to the first one equal to account
main_accounts(ordering, account) ==
    {ordering[i] : i \in {j \in 1..Len(ordering) :
                            \A k \in 1..j : ordering[k] # account}}

\* mutant: the accounts already processed are not added
gather_transfer_accounts_config_only(ordering, processed, account) ==
    IF account \in Range(ordering) THEN main_accounts(ordering, account)
    ELSE Range(ordering)

gather_transfer_accounts(ordering, processed, account) ==
    (IF account \in Range(ordering) THEN main_accounts(ordering, account)
     ELSE Range(ordering))
    \cup {acc \in processed : acc \notin Range(ordering)}

(***************************************************************************)
(* Statement Assembler, pass 1: the ledger of OfxWriter.run (lines 591-607) *)
(***************************************************************************)
\* mindate before the first transaction is looked at (line 575)
MinDateStart == 999999999

\* mutant: a new account is put in front of the accounts seen before
RECURSIVE gather_accounts_newest_first(_, _)
gather_accounts_newest_first(txns, ledger) ==
    IF txns = <<>> THEN ledger
    ELSE gather_accounts_newest_first(Tail(txns),
            IF \E i \in 1..Len(ledger) : ledger[i].accNr = Head(txns).account
            THEN ledger
            ELSE <<[accNr |-> Head(txns).account, txn_ctr |-> 0, txn_skip |-> 0,
                    txn_processed |-> 0, nr_overrides |-> 0]>> \o ledger)

\* the accounts dict, in insertion order: one zeroed record per account number
RECURSIVE gather_accounts(_, _)
gather_accounts(txns, ledger) ==
    IF txns = <<>> THEN ledger
    ELSE gather_accounts(Tail(txns),
            IF \E i \in 1..Len(ledger) : ledger[i].accNr = Head(txns).account
            THEN ledger
            ELSE Append(ledger, [accNr |-> Head(txns).account, txn_ctr |-> 0,
                                 txn_skip |-> 0, txn_processed |-> 0,
                                 nr_overrides |-> 0]))

RECURSIVE min_date(_, _)
min_date(txns, m) ==
    IF txns = <<>> THEN m
    ELSE min_date(Tail(txns),
                  IF ParseInt(Head(txns).dtposted) < m THEN ParseInt(Head(txns).dtposted)
                  ELSE m)

RECURSIVE max_date(_, _)
max_date(txns, m) ==
    IF txns = <<>> THEN m
    ELSE max_date(Tail(txns),
                  IF ParseInt(Head(txns).dtposted) > m THEN ParseInt(Head(txns).dtposted)
                  ELSE m)

(***************************************************************************)
(* Inputs of a run: the config file, the command line, the CSV file.       *)
(***************************************************************************)
AccA == <<"A">>
AccB == <<"B">>
AccC == <<"C">>

True == <<"t", "r", "u", "e">>
False == <<"f", "a", "l", "s", "e">>

\* the [override] section as a dict
NoOverrides == [k \in {} |-> <<>>]
ForceDatePosted(v) == [k \in {"force_date_posted"} |-> v]

\* no config.rabo2ofx.ini in the working directory
NoConfigFile ==
    [exists |-> FALSE, has_accounts |-> FALSE, accounts |-> <<>>,
     has_override |-> FALSE, override |-> NoOverrides]

ConfigFile(order, override) ==
    [exists |-> TRUE, has_accounts |-> TRUE, accounts |-> order,
     has_override |-> TRUE, override |-> override]

\* a CSV row: the columns the core reads
Row(acct, counter) ==
    [acctNr |-> acct, serNr |-> <<"1">>,
     Date |-> <<"2", "0", "1", "8", "-", "0", "3", "-", "0", "5">>,
     interestDate |-> <<"2", "0", "1", "8", "-", "0", "3", "-", "0", "5">>,
     amount |-> <<"5">>, counterAcctNr |-> counter, counterAcctName |-> <<>>,
     bookCode |-> <<"t", "b">>, descr1 |-> <<>>, descr2 |-> <<>>, descr3 |-> <<>>,
     betalingskenmerk |-> <<>>]

\* the first line of the file: column descriptions, never mapped
HeaderRow == Row(<<"X">>, <<"X">>)

Date20171231 == <<"2", "0", "1", "7", "-", "1", "2", "-", "3", "1">>
Date20180101 == <<"2", "0", "1", "8", "-", "0", "1", "-", "0", "1">>
Date20170615 == <<"2", "0", "1", "7", "-", "0", "6", "-", "1", "5">>
Date20180305 == <<"2", "0", "1", "8", "-", "0", "3", "-", "0", "5">>

\* rows of the multi-row runs: transfers between A, B and C (one of them with
\* an interest date that differs from its transaction date), a payment whose
\* interest date differs from its transaction date, and a row with a
\* non-numeric amount
RunRows ==
    {Row(AccA, AccB), Row(AccB, AccA), Row(AccA, AccC),
     [Row(AccC, AccA) EXCEPT !.interestDate = Date20180101],
     [Row(AccA, <<>>) EXCEPT !.serNr = <<>>, !.interestDate = Date20180101,
                             !.amount = <<"-", "5">>, !.bookCode = <<"b", "a">>],
     [Row(AccB, AccA) EXCEPT !.amount = <<"x">>]}

RunOrderings == {<<>>, <<AccA>>, <<<<"a">>, AccB>>, <<AccB, AccA, AccB>>}

SeqsUpTo(S, n) == UNION {[1..k -> S] : k \in 0..n}

RunScenarios ==
    [configfile : {ConfigFile(o, ForceDatePosted(True)) : o \in RunOrderings},
     homebank : BOOLEAN,
     dec_comma : {FALSE},
     csvfile : {<<HeaderRow>> \o body : body \in SeqsUpTo(RunRows, MaxRows)}]

BookCodes ==
    {<<"a", "c">>, <<"b", "a">>, <<"b", "c">>, <<"b", "g">>, <<"c", "b">>, <<"c", "k">>,
     <<"d", "b">>, <<"e", "b">>, <<"e", "i">>, <<"g", "a">>, <<"g", "b">>, <<"i", "d">>,
     <<"m", "a">>, <<"s", "b">>, <<"t", "b">>,
     <<"k", "b">>, <<"s", "p">>, <<"C", "D">>, <<"D">>, <<"A", "C">>, <<"a">>, <<>>}

Amounts ==
    {<<"1", "2", ".", "3", "4">>, <<"-", "1", "2", ".", "3", "4">>,
     <<"-", "1", "2", ",", "3", "4">>, <<"1", "2", ",", "3", "4">>,
     <<"+", "1", ".", "5">>, <<"5">>, <<"-", "5">>, <<"0">>, <<"-", "0", ".", "0", "0">>,
     <<"1", ".", "2", "3", "4", ",", "5", "0">>, <<" ", "5">>, <<"x">>, <<>>}

\* single-row files that vary one group of columns at a time
FieldRows ==
    {[Row(AccA, AccB) EXCEPT !.bookCode = c, !.amount = a] :
        c \in BookCodes, a \in {<<"5", ".", "0", "0">>, <<"-", "5", ".", "0", "0">>}}
    \cup
    {[Row(AccA, AccB) EXCEPT !.amount = a, !.serNr = n, !.interestDate = i, !.Date = i] :
        a \in Amounts, n \in {<<>>, <<"7">>}, i \in {Date20171231, Date20180101}}
    \cup
    {[Row(AccA, AccB) EXCEPT !.serNr = n, !.interestDate = i, !.Date = d] :
        n \in {<<>>, <<"7">>},
        i \in {Date20171231, Date20180101, Date20170615, Date20180305},
        d \in {Date20171231, Date20180101}}
    \cup
    {Row(a, c) :
        a \in {AccA, <<"A", " ", "B">>, <<" ", "A">>, <<"A", "\t">>},
        c \in {AccB, <<" ", "B">>, <<"B", " ">>, <<"A", " ", "B">>, <<>>}}
    \cup
    {[Row(AccA, c) EXCEPT !.bookCode = code, !.counterAcctName = n,
                          !.descr1 = d[1], !.descr2 = d[2], !.descr3 = d[3],
                          !.betalingskenmerk = k] :
        c \in {<<>>, AccB}, n \in {<<>>, <<"Q">>},
        code \in {<<"b", "a">>, <<"d", "b">>, <<"a", "c">>, <<"t", "b">>, <<>>},
        d \in {<<<<>>, <<>>, <<>>>>, <<<<" ", "a">>, <<"&">>, <<"b", " ">>>>},
        k \in {<<>>, <<"1">>}}

FieldConfigs ==
    {NoConfigFile,
     [ConfigFile(<<AccA, AccB>>, NoOverrides) EXCEPT !.has_accounts = FALSE],
     [ConfigFile(<<AccA, AccB>>, NoOverrides) EXCEPT !.has_override = FALSE],
     ConfigFile(<<AccA, AccB>>, NoOverrides),
     ConfigFile(<<AccA, AccB>>, ForceDatePosted(<<>>)),
     ConfigFile(<<AccA, AccB>>, ForceDatePosted(False)),
     ConfigFile(<<AccA, AccB>>, ForceDatePosted(True))}

FieldScenarios ==
    [configfile : FieldConfigs,
     homebank : {FALSE},
     dec_comma : BOOLEAN,
     csvfile : {<<HeaderRow, r>> : r \in FieldRows}]

Scenarios == RunScenarios \cup FieldScenarios

(***************************************************************************)
(* State.                                                                  *)
(***************************************************************************)
VARIABLES
    configfile,          \* config.rabo2ofx.ini, as found on disk
    ARGS,                \* the parsed command line: homebank, dec_comma
    csvfile,             \* the lines of the CSV file, header line first
    pc,                  \* where the program is
    config_accounts,     \* Cfg.config_accounts
    config_overrides,    \* Cfg.config_overrides
    linenr,              \* CsvFile.__init__: lines read so far
    transactions,        \* CsvFile.transactions
    fitid,               \* CsvFile.fitid: key -> last sequence number given out
    fitids,              \* history: the bag of identifiers map_fitid returned
    accounts,            \* OfxWriter.run: the accounts dict, in insertion order
    mindate,             \* OfxWriter.run
    maxdate,             \* OfxWriter.run
    ofxfile,             \* the messages written to the OFX file, in order
    cur,                 \* OfxWriter.run: position of the outer loop in accounts
    transfer_accounts,   \* OfxWriter.run: the suppressed set of the current account
    tix,                 \* OfxWriter.run: position of the inner loop in transactions
    processed_accounts,  \* OfxWriter.processed_accounts
    fate,                \* history: per transaction, "emitted" or "skipped" by pass 2
    amounts              \* amount specification: an amount and its successive mappings

vars == <<configfile, ARGS, csvfile, pc, config_accounts, config_overrides, linenr,
          transactions, fitid, fitids, accounts, mindate, maxdate, ofxfile, cur,
          transfer_accounts, tix, processed_accounts, fate, amounts>>

inputVars == <<configfile, ARGS, csvfile>>
cfgVars == <<config_accounts, config_overrides>>
csvVars == <<linenr, transactions, fitid, fitids>>
runVars == <<accounts, mindate, maxdate, ofxfile, cur, transfer_accounts, tix,
             processed_accounts, fate>>

\* self.fitid = {}
NoCounters == [k \in {} |-> 0]

\* the state of the objects before any constructor has run
Idle ==
    /\ config_accounts = <<>>
    /\ config_overrides = NoOverrides
    /\ linenr = 0
    /\ transactions = <<>>
    /\ fitid = NoCounters
    /\ fitids = EmptyBag
    /\ accounts = <<>>
    /\ mindate = MinDateStart
    /\ maxdate = 0
    /\ ofxfile = <<>>
    /\ cur = 0
    /\ transfer_accounts = {}
    /\ tix = 0
    /\ processed_accounts = {}
    /\ fate = <<>>

Init ==
    /\ \E sc \in Scenarios :
          /\ configfile = sc.configfile
          /\ ARGS = [homebank |-> sc.homebank, dec_comma |-> sc.dec_comma]
          /\ csvfile = sc.csvfile
    /\ pc = "cfg"
    /\ Idle
    /\ amounts = <<>>

(***************************************************************************)
(* Cfg.__init__                                                            *)
(***************************************************************************)
CfgInit ==
    /\ pc = "cfg"
    /\ IF ~ configfile.exists
       THEN /\ pc' = "read"
            /\ UNCHANGED cfgVars
       ELSE IF ~ configfile.has_accounts
       THEN \* config['accounts'] raises KeyError
            /\ pc' = "failed"
            /\ UNCHANGED cfgVars
       ELSE IF ~ configfile.has_override
       THEN \* config['override'] raises KeyError
            /\ pc' = "failed"
            /\ config_accounts' = [i \in 1..Len(configfile.accounts) |->
                                      Upper(configfile.accounts[i])]
            /\ UNCHANGED config_overrides
       ELSE /\ pc' = "read"
            /\ config_accounts' = [i \in 1..Len(configfile.accounts) |->
                                      Upper(configfile.accounts[i])]
            /\ config_overrides' = configfile.override
    /\ UNCHANGED <<inputVars, csvVars, runVars, amounts>>

(***************************************************************************)
(* CsvFile.__init__: one iteration of the loop over the lines of the file  *)
(***************************************************************************)
ReadRow ==
    /\ pc = "read"
    /\ linenr < Len(csvfile)
    /\ linenr' = linenr + 1
    /\ LET row == csvfile[linenr + 1]
       IN  IF linenr + 1 = 1
           THEN \* skip the first line
                UNCHANGED <<pc, transactions, fitid, fitids>>
           ELSE IF create_ofx_raises(row, config_overrides, ARGS.dec_comma)
           THEN /\ pc' = "failed"
                /\ UNCHANGED <<transactions, fitid, fitids>>
           ELSE LET made == create_ofx(row, config_overrides, ARGS.dec_comma, fitid)
                IN  /\ transactions' = Append(transactions, made.ofx_data)
                    /\ fitid' = made.counters
                    /\ fitids' = fitids (+) SetToBag({made.ofx_data.fitid})
                    /\ UNCHANGED pc
    /\ UNCHANGED <<inputVars, cfgVars, runVars, amounts>>

(***************************************************************************)
(* OfxWriter.run                                                           *)
(***************************************************************************)
\* pass 1 (lines 591-609): the ledger and the file-wide date range
GatherAccounts ==
    /\ pc = "read"
    /\ linenr = Len(csvfile)
    /\ IF \E i \in 1..Len(transactions) : ~ IntOk(transactions[i].dtposted)
       THEN \* int(trns['dtposted']) raises ValueError
            /\ pc' = "failed"
            /\ UNCHANGED runVars
       ELSE /\ pc' = "open"
            /\ accounts' = gather_accounts(transactions, <<>>)
            /\ mindate' = min_date(transactions, MinDateStart)
            /\ maxdate' = max_date(transactions, 0)
            /\ fate' = [i \in 1..Len(transactions) |-> "pending"]
            /\ UNCHANGED <<ofxfile, cur, transfer_accounts, tix, processed_accounts>>
    /\ UNCHANGED <<inputVars, cfgVars, csvVars, amounts>>

\* lines 615-617
WriteHeader ==
    /\ pc = "open"
    /\ ofxfile' = <<[msg |-> "message_header"]>>
    /\ cur' = 1
    /\ pc' = IF accounts = <<>> THEN "footer" ELSE "account"
    /\ UNCHANGED <<inputVars, cfgVars, csvVars, accounts, mindate, maxdate,
                   transfer_accounts, tix, processed_accounts, fate, amounts>>

\* lines 621-627: the next account of the outer loop
AccountStart ==
    /\ pc = "account"
    /\ LET account == accounts[cur].accNr
       IN  /\ ofxfile' = Append(ofxfile, [msg |-> "account_start", account |-> account,
                                          mindate |-> mindate, maxdate |-> maxdate])
           /\ transfer_accounts' =
                  gather_transfer_accounts(config_accounts, processed_accounts, account)
    /\ tix' = 1
    /\ pc' = "txns"
    /\ UNCHANGED <<inputVars, cfgVars, csvVars, accounts, mindate, maxdate, cur,
                   processed_accounts, fate, amounts>>

\* mutant: the dual-leg flag is not consulted
suppressed_in_any_mode(trns, transfers, homebank) == trns.accountto \in transfers

\* the decision of line 634
suppressed(trns, transfers, homebank) == trns.accountto \in transfers /\ ~ homebank

\* mutant: a skipped row adds its overrides to the account's override total
count_skipped_with_overrides(rec, trns) ==
    [rec EXCEPT !.txn_ctr = @ + 1, !.txn_skip = @ + 1,
                !.nr_overrides = @ + trns.nr_overrides]

\* lines 632 and 635: the ledger of the account after a suppressed row
count_skipped(rec, trns) == [rec EXCEPT !.txn_ctr = @ + 1, !.txn_skip = @ + 1]

\* lines 632, 638 and 639: the ledger of the account after an emitted row
count_processed(rec, trns) ==
    [rec EXCEPT !.txn_ctr = @ + 1, !.txn_processed = @ + 1,
                !.nr_overrides = @ + trns.nr_overrides]

\* lines 629-640: one iteration of the inner loop
ScanTxn ==
    /\ pc = "txns"
    /\ tix <= Len(transactions)
    /\ tix' = tix + 1
    /\ LET trns == transactions[tix]
           rec == accounts[cur]
       IN  IF trns.account # rec.accNr
           THEN UNCHANGED <<accounts, ofxfile, fate>>
           ELSE IF suppressed(trns, transfer_accounts, ARGS.homebank)
           THEN /\ accounts' = [accounts EXCEPT ![cur] = count_skipped(rec, trns)]
                /\ fate' = [fate EXCEPT ![tix] = "skipped"]
                /\ UNCHANGED ofxfile
           ELSE /\ accounts' = [accounts EXCEPT ![cur] = count_processed(rec, trns)]
                /\ fate' = [fate EXCEPT ![tix] = "emitted"]
                /\ ofxfile' = Append(ofxfile, [msg |-> "txn", trns |-> trns])
    /\ UNCHANGED <<inputVars, cfgVars, csvVars, pc, mindate, maxdate, cur,
                   transfer_accounts, processed_accounts, amounts>>

\* lines 642-645: the end of the inner loop
AccountEnd ==
    /\ pc = "txns"
    /\ tix > Len(transactions)
    /\ ofxfile' = Append(ofxfile, [msg |-> "account_end"])
    /\ processed_accounts' = processed_accounts \cup {accounts[cur].accNr}
    /\ cur' = cur + 1
    /\ pc' = IF cur + 1 > Len(accounts) THEN "footer" ELSE "account"
    /\ UNCHANGED <<inputVars, cfgVars, csvVars, accounts, mindate, maxdate,
                   transfer_accounts, tix, fate, amounts>>

\* lines 647-648
WriteFooter ==
    /\ pc = "footer"
    /\ ofxfile' = Append(ofxfile, [msg |-> "message_footer"])
    /\ pc' = "done"
    /\ UNCHANGED <<inputVars, cfgVars, csvVars, accounts, mindate, maxdate, cur,
                   transfer_accounts, tix, processed_accounts, fate, amounts>>

Next ==
    \/ CfgInit
    \/ ReadRow
    \/ GatherAccounts
    \/ WriteHeader
    \/ AccountStart
    \/ ScanTxn
    \/ AccountEnd
    \/ WriteFooter

Spec == Init /\ [][Next]_vars

(***************************************************************************)
(* The Identifier Generator on its own: map_fitid called again and again   *)
(* on one CsvFile, with any arguments.                                     *)
(***************************************************************************)
FitidAccounts == {AccA}
FitidSerials == {<<>>, <<"1">>, <<"1", "1">>}
FitidAmounts == {<<"5">>, <<"-", "1", ".", "5">>, <<"x">>}
FitidDates == {<<"2", "0", "1", "7", "1", "2", "3", "1">>,
               <<"2", "0", "1", "8", "0", "3", "0", "5">>}

InitFitid ==
    /\ configfile = NoConfigFile
    /\ ARGS = [homebank |-> FALSE, dec_comma |-> FALSE]
    /\ csvfile = <<HeaderRow>>
    /\ pc = "fitid"
    /\ Idle
    /\ amounts = <<>>

FitidCall ==
    /\ pc = "fitid"
    /\ BagCardinality(fitids) < MaxCalls
    /\ \E account \in FitidAccounts, volgnr \in FitidSerials,
          trnamt \in FitidAmounts, dtposted \in FitidDates :
          IF map_fitid_raises(trnamt)
          THEN /\ pc' = "failed"
               /\ UNCHANGED <<fitid, fitids>>
          ELSE LET made == map_fitid(fitid, account, volgnr, trnamt, dtposted)
               IN  /\ fitid' = made.counters
                   /\ fitids' = fitids (+) SetToBag({made.fitid})
                   /\ UNCHANGED pc
    /\ UNCHANGED <<inputVars, cfgVars, linenr, transactions, runVars, amounts>>

NextFitid == FitidCall

SpecFitid == InitFitid /\ [][NextFitid]_vars

(***************************************************************************)
(* map_amount on its own: an amount mapped under one preference, the       *)
(* result mapped again under either preference, and so on.                 *)
(***************************************************************************)
InitAmount ==
    /\ configfile = NoConfigFile
    /\ ARGS = [homebank |-> FALSE, dec_comma |-> FALSE]
    /\ csvfile = <<HeaderRow>>
    /\ pc = "amount"
    /\ Idle
    /\ \E a \in Amounts : amounts = <<[preference |-> "source", amt |-> a]>>

MapAmountCall ==
    /\ pc = "amount"
    /\ Len(amounts) <= MaxChain
    /\ \E dec_comma \in BOOLEAN :
          LET row == [Row(AccA, AccB) EXCEPT !.amount = amounts[Len(amounts)].amt]
          IN  amounts' = Append(amounts,
                  [preference |-> IF dec_comma THEN "comma" ELSE "point",
                   amt |-> map_amount(row, dec_comma)[2]])
    /\ UNCHANGED <<inputVars, cfgVars, csvVars, runVars, pc>>

NextAmount == MapAmountCall

SpecAmount == InitAmount /\ [][NextAmount]_vars

(***************************************************************************)
(* Properties.                                                             *)
(***************************************************************************)
\* the CSV row transactions[i] was mapped from (line 1 is the header)
RowOf(i) == csvfile[i + 1]

Mapped == 1..Len(transactions)

IsSeparatorOrSign(c) == c \in {".", ",", "-", "+"}
NotSeparatorOrSign(c) == ~ IsSeparatorOrSign(c)
NotDash(c) == c # "-"
NotWhitespace(c) == c \notin {" ", "\t"}

\* position of the first occurrence of account a in the configured ordering
FirstIndex(a) == CHOOSE i \in 1..Len(config_accounts) :
                    /\ config_accounts[i] = a
                    /\ \A j \in 1..(i - 1) : config_accounts[j] # a

\* rows r and s are the two legs of one transfer between accounts P and Q
Reciprocal(r, s, P, Q) ==
    /\ transactions[r].account = P /\ transactions[r].accountto = Q
    /\ transactions[s].account = Q /\ transactions[s].accountto = P

RECURSIVE SumProcessed(_)
SumProcessed(ledger) ==
    IF ledger = <<>> THEN 0 ELSE Head(ledger).txn_processed + SumProcessed(Tail(ledger))

\* C1: the identifiers map_fitid returned so far are pairwise distinct
C1_IdentifiersDistinct == \A id \in BagToSet(fitids) : CopiesIn(id, fitids) = 1

\* C2 as stated: in single-leg mode, for accounts P and Q of the configured
\* ordering with some P before some Q, of a row on P to Q and a row on Q to P
\* the row on P is emitted and the row on Q is skipped
C2_AnyOccurrenceBefore ==
    (pc = "done" /\ ~ ARGS.homebank) =>
        \A i, j \in 1..Len(config_accounts) :
            (i < j /\ config_accounts[i] # config_accounts[j]) =>
                \A r, s \in Mapped :
                    Reciprocal(r, s, config_accounts[i], config_accounts[j]) =>
                        fate[r] = "emitted" /\ fate[s] = "skipped"

\* C2 amended: in single-leg mode, for accounts P and Q of the configured
\* ordering where the first occurrence of P precedes the first occurrence of Q,
\* of a row on P to Q and a row on Q to P the row on P is emitted and the row
\* on Q is skipped and counted in Q's skipped counter
C2_FirstOccurrenceBefore ==
    (pc = "done" /\ ~ ARGS.homebank) =>
        \A P, Q \in Range(config_accounts) :
            (FirstIndex(P) < FirstIndex(Q)) =>
                \A r, s \in Mapped :
                    Reciprocal(r, s, P, Q) =>
                        /\ fate[r] = "emitted"
                        /\ fate[s] = "skipped"
                        /\ \E k \in 1..Len(accounts) :
                              accounts[k].accNr = Q /\ accounts[k].txn_skip >= 1

C2_Witness ==
    /\ pc = "done"
    /\ ~ ARGS.homebank
    /\ \E P, Q \in Range(config_accounts) :
          /\ FirstIndex(P) < FirstIndex(Q)
          /\ \E r, s \in Mapped : r > s /\ Reciprocal(r, s, P, Q)

\* C3: in dual-leg mode no row is skipped, every skipped counter is 0, and
\* after the run every row is emitted and the processed counters add up to
\* the number of mapped transactions
C3_DualLegKeepsAll ==
    ARGS.homebank =>
        /\ \A k \in 1..Len(accounts) : accounts[k].txn_skip = 0
        /\ \A i \in 1..Len(fate) : fate[i] # "skipped"
        /\ pc = "done" =>
              /\ \A i \in Mapped : fate[i] = "emitted"
              /\ SumProcessed(accounts) = Len(transactions)

C3_Witness ==
    /\ pc = "done"
    /\ ARGS.homebank
    /\ \E P, Q \in Range(config_accounts) :
          /\ FirstIndex(P) < FirstIndex(Q)
          /\ \E r, s \in Mapped : Reciprocal(r, s, P, Q)

\* C4: a row posted on 20171231 or earlier, or without sequence number, has the
\* key postedDate + amount without . , - + + debit/credit marker; a row posted
\* on 20180101 or later with a sequence number has the key account +
\* sequenceNumber; the identifier is that key followed by a decimal number
C4_KeyForm ==
    \A i \in Mapped :
        LET t == transactions[i]
            row == RowOf(i)
            legacy == t.dtposted \o SelectSeq(row.amount, NotSeparatorOrSign)
                      \o <<IF FloatNonNeg(row.amount) THEN "C" ELSE "D">>
            key == IF ParseInt(t.dtposted) <= 20171231 \/ row.serNr = <<>>
                   THEN legacy
                   ELSE t.account \o row.serNr
        IN  /\ key \in DOMAIN fitid
            /\ \E n \in 0..Len(transactions) : t.fitid = key \o Str(n)

C4_Witness ==
    \E i \in Mapped :
        /\ transactions[i].dtposted = <<"2", "0", "1", "7", "1", "2", "3", "1">>
        /\ RowOf(i).serNr # <<>>

\* the flag is configured with a value that asks for the override
ForceEnabled ==
    /\ "force_date_posted" \in DOMAIN config_overrides
    /\ config_overrides["force_date_posted"] \notin {<<>>, False}

\* C5: with force_date_posted enabled, a mapped row whose interest date differs
\* from its transaction date has override count 1 and is posted on the
\* transaction date without dashes; a mapped row whose dates are equal has
\* override count 0 and is posted on that date without dashes, flag or no flag
C5_OverrideCount ==
    \A i \in Mapped :
        LET t == transactions[i]
            row == RowOf(i)
        IN  /\ (ForceEnabled /\ row.interestDate # row.Date) =>
                  /\ t.nr_overrides = 1
                  /\ t.dtposted = SelectSeq(row.Date, NotDash)
            /\ (row.interestDate = row.Date) =>
                  /\ t.nr_overrides = 0
                  /\ t.dtposted = SelectSeq(row.Date, NotDash)

C5_Witness ==
    \E i \in Mapped :
        /\ ForceEnabled
        /\ RowOf(i).interestDate # RowOf(i).Date
        /\ transactions[i].nr_overrides = 1

\* the config was read and the flag is absent from it or configured as false
ForceNotSet ==
    /\ pc # "cfg"
    /\ ~ (pc = "failed" /\ linenr = 0)
    /\ \/ "force_date_posted" \notin DOMAIN config_overrides
       \/ config_overrides["force_date_posted"] = False

\* C6: when force_date_posted is absent or configured as false, no row with a
\* numeric amount fails to map, and every mapped row is posted on its interest
\* date without dashes with override count 0
C6_DefaultIsInterestDate ==
    ForceNotSet =>
        /\ \A i \in Mapped :
              /\ transactions[i].dtposted = SelectSeq(RowOf(i).interestDate, NotDash)
              /\ transactions[i].nr_overrides = 0
        /\ ~ (pc = "failed" /\ FloatOk(map_amount(csvfile[linenr], ARGS.dec_comma)[2]))

\* a decimal with a fractional part: optional sign, digits, one . or , , digits
WellFormedFraction(a) ==
    LET b == IF a # <<>> /\ a[1] \in {"-", "+"} THEN Tail(a) ELSE a
    IN  \E p \in 2..(Len(b) - 1) :
            /\ b[p] \in {".", ","}
            /\ \A q \in (1..Len(b)) \ {p} : IsDigit(b[q])

\* C7: with comma preference on, every line read whose amount is a decimal
\* with a fractional part is mapped: the run has not failed on it, its amount
\* is the source amount with a comma as separator, and its identifier is in
\* the counter map's key followed by a number
C7_CommaAmountMaps ==
    \A line \in 2..linenr :
        (/\ ARGS.dec_comma
         /\ "force_date_posted" \in DOMAIN config_overrides
         /\ WellFormedFraction(csvfile[line].amount)) =>
            /\ line - 1 \in Mapped
            /\ transactions[line - 1].trnamt =
                  [p \in 1..Len(csvfile[line].amount) |->
                      IF csvfile[line].amount[p] = "." THEN ","
                      ELSE csvfile[line].amount[p]]
            /\ transactions[line - 1].fitid # <<>>

\* C8: every mapping of an amount, direct or through earlier mappings, is the
\* source amount with each . and , replaced by the separator of the preference
\* it was last mapped under: same length, digits and sign unchanged
C8_SeparatorOnly ==
    \A k \in 2..Len(amounts) :
        LET src == amounts[1].amt
            sep == IF amounts[k].preference = "comma" THEN "," ELSE "."
        IN  /\ Len(amounts[k].amt) = Len(src)
            /\ \A p \in 1..Len(src) :
                  amounts[k].amt[p] = IF src[p] \in {".", ","} THEN sep ELSE src[p]

C8_Witness ==
    /\ Len(amounts) >= 3
    /\ amounts[2].preference = "point"
    /\ amounts[3].preference = "comma"
    /\ amounts[1].amt = <<"-", "1", "2", ",", "3", "4">>
    /\ amounts[3].amt = <<"-", "1", "2", ",", "3", "4">>

\* the transaction type the booking-code table gives
TypeOfCode(code, amount) ==
    IF code \in {<<"a", "c">>, <<"b", "g">>, <<"c", "b">>, <<"s", "b">>, <<"t", "b">>}
    THEN "XFER"
    ELSE IF code \in {<<"b", "a">>, <<"b", "c">>, <<"c", "k">>} THEN "POS"
    ELSE IF code = <<"d", "b">> THEN "OTHER"
    ELSE IF code \in {<<"e", "b">>, <<"e", "i">>, <<"m", "a">>} THEN "DIRECTDEBIT"
    ELSE IF code \in {<<"g", "a">>, <<"g", "b">>} THEN "ATM"
    ELSE IF code = <<"i", "d">> THEN "PAYMENT"
    ELSE IF amount # <<>> /\ amount[1] = "-" THEN "DEBIT"
    ELSE "CREDIT"

C10_AccountsWithoutWhitespace ==
    \A i \in Mapped :
        /\ transactions[i].account = SelectSeq(RowOf(i).acctNr, NotWhitespace)
        /\ transactions[i].accountto = SelectSeq(RowOf(i).counterAcctNr, NotWhitespace)

\* the account whose rows pass 2 is examining
CurrentAccount == accounts[cur].accNr

\* C11: while the rows of an account are examined, the suppressed set is: the
\* accounts before the first occurrence of the account in the configured
\* ordering when it is listed, else every account of the ordering; together
\* with the finalized accounts that are not in the ordering; and nothing else
C11_SuppressedSet ==
    pc = "txns" =>
        transfer_accounts =
            (IF \E i \in 1..Len(config_accounts) : config_accounts[i] = CurrentAccount
             THEN {config_accounts[i] : i \in 1..(FirstIndex(CurrentAccount) - 1)}
             ELSE {config_accounts[i] : i \in 1..Len(config_accounts)})
            \cup {acc \in processed_accounts :
                    \A i \in 1..Len(config_accounts) : config_accounts[i] # acc}

C11_Witness ==
    /\ pc = "txns"
    /\ CurrentAccount \notin Range(config_accounts)
    /\ config_accounts # <<>>
    /\ \E acc \in processed_accounts : acc \notin Range(config_accounts)

\* the first row of the file that is posted on account a
FirstRow(a) == CHOOSE i \in Mapped :
                  /\ transactions[i].account = a
                  /\ \A j \in 1..(i - 1) : transactions[j].account # a

\* account a is the own account of some row
Observed(a) == \E i \in Mapped : transactions[i].account = a

\* the config was read and lists no account
NoConfiguredAccounts == pc \notin {"cfg", "failed"} /\ config_accounts = <<>>

\* C12 as stated: without configured accounts no row is suppressed, every
\* skipped counter is 0 and after the run every mapped transaction is emitted
C12_NothingSuppressed ==
    NoConfiguredAccounts =>
        /\ \A i \in 1..Len(fate) : fate[i] # "skipped"
        /\ \A k \in 1..Len(accounts) : accounts[k].txn_skip = 0
        /\ pc = "done" => \A i \in Mapped : fate[i] = "emitted"

\* C12 amended: without configured accounts, in single-leg mode a row is
\* suppressed exactly when its destination is an account of the input whose
\* rows start earlier in the file than the rows of its own account (an account
\* finalized before it); every other mapped transaction is emitted
C12_SuppressedOnlyTowardsEarlierAccounts ==
    (NoConfiguredAccounts /\ ~ ARGS.homebank /\ pc = "done") =>
        \A i \in Mapped :
            LET t == transactions[i]
                towardsEarlier == /\ Observed(t.accountto)
                                  /\ FirstRow(t.accountto) < FirstRow(t.account)
            IN  fate[i] = IF towardsEarlier THEN "skipped" ELSE "emitted"

C12_Witness ==
    /\ NoConfiguredAccounts
    /\ ~ ARGS.homebank
    /\ pc = "done"
    /\ \E i, j \in Mapped : fate[i] = "skipped" /\ fate[j] = "emitted"

\* the amount holds a character that no number holds
NonNumeric(amount) ==
    \E p \in 1..Len(amount) :
        ~ IsDigit(amount[p]) /\ amount[p] \notin {".", ",", "-", "+", " ", "\t"}

\* C13: nothing is written before every line of the file was read and every
\* row mapped; a row with a non-numeric amount is never mapped, no line after
\* it is read, the run has failed once it was read, and nothing is written
C13_NoOutputBeforeAllRowsMapped ==
    /\ ofxfile # <<>> =>
          /\ linenr = Len(csvfile)
          /\ Len(transactions) = Len(csvfile) - 1
    /\ \A line \in 2..Len(csvfile) :
          NonNumeric(csvfile[line].amount) =>
              /\ linenr <= line
              /\ Len(transactions) <= line - 2
              /\ linenr = line => pc = "failed"
              /\ ofxfile = <<>>
              /\ pc \notin {"open", "account", "txns", "footer", "done"}

C13_Witness ==
    /\ pc = "failed"
    /\ linenr >= 3
    /\ linenr < Len(csvfile)
    /\ NonNumeric(csvfile[linenr].amount)
    /\ Len(transactions) = linenr - 2
    /\ ofxfile = <<>>

\* counter-account number and name, with one blank between them when both are there
DefaultName(row) ==
    IF row.counterAcctNr = <<>> THEN row.counterAcctName
    ELSE IF row.counterAcctName = <<>> THEN row.counterAcctNr
    ELSE row.counterAcctNr \o <<" ">> \o row.counterAcctName

\* the three description fields, concatenated and trimmed
DefaultMemo(row) == Strip(row.descr1 \o row.descr2 \o row.descr3)

\* every & of a memo is written as &amp
Amp(memo) == Replace(memo, "&", <<"&", "a", "m", "p">>)

LabelDb == <<"[", "d", "b", "]", " ", "d", "i", "v", "e", "r", "s", "e", " ",
             "b", "o", "e", "k", "i", "n", "g", "e", "n">>

LabelBetalingskenmerk ==
    <<"b", "e", "t", "a", "l", "i", "n", "g", "s", "k", "e", "n", "m", "e", "r", "k", " ">>

\* C14: name and memo of every mapped row follow the first rule that matches:
\* ba without default name: name is description 1, memo is descriptions 2 + 3;
\* db: name is "[db] diverse boekingen", then a blank and the default name when
\* there is one; ac: the labelled payment reference is appended to the memo;
\* any other row, a ba row with a default name included: default name and
\* default memo. Every memo is written with & as &amp.
C14_MemoNameRules ==
    \A i \in Mapped :
        LET t == transactions[i]
            row == RowOf(i)
        IN  IF row.bookCode = <<"b", "a">> /\ DefaultName(row) = <<>>
            THEN /\ t.name = row.descr1
                 /\ t.memo = Amp(row.descr2 \o row.descr3)
            ELSE IF row.bookCode = <<"d", "b">>
            THEN /\ t.name = IF DefaultName(row) = <<>> THEN LabelDb
                             ELSE LabelDb \o <<" ">> \o DefaultName(row)
                 /\ t.memo = Amp(DefaultMemo(row))
            ELSE IF row.bookCode = <<"a", "c">>
            THEN /\ t.name = DefaultName(row)
                 /\ t.memo = Amp(DefaultMemo(row) \o LabelBetalingskenmerk
                                 \o row.betalingskenmerk)
            ELSE /\ t.name = DefaultName(row)
                 /\ t.memo = Amp(DefaultMemo(row))

C14_Witness ==
    \E i \in Mapped :
        /\ RowOf(i).bookCode = <<"b", "a">>
        /\ RowOf(i).counterAcctNr = <<>>
        /\ RowOf(i).counterAcctName = <<>>
        /\ RowOf(i).descr1 = <<" ", "a">>
        /\ transactions[i].name = <<" ", "a">>
        /\ transactions[i].memo = <<"&", "a", "m", "p", "b", " ">>

\* C15: every call of map_fitid that returns an identifier does so for one
\* key: the counter stored for that key becomes 0 when the key is new and one
\* more than it was otherwise (so it is the number of rows seen with the key
\* minus 1), the counters of all other keys stay as they were, and the
\* identifier returned is the key followed by that counter in decimal
C15_CounterPerKey ==
    [][ (fitid' # fitid \/ fitids' # fitids) =>
            \E key \in DOMAIN fitid' :
                /\ DOMAIN fitid' = DOMAIN fitid \cup {key}
                /\ fitid'[key] = IF key \in DOMAIN fitid THEN fitid[key] + 1 ELSE 0
                /\ \A k \in DOMAIN fitid \ {key} : fitid'[k] = fitid[k]
                /\ fitids' = fitids (+) SetToBag({key \o Str(fitid'[key])}) ]_vars

C15_Witness ==
    \E key \in DOMAIN fitid :
        /\ fitid[key] = 2
        /\ BagIn(key \o <<"0">>, fitids)
        /\ BagIn(key \o <<"1">>, fitids)
        /\ BagIn(key \o <<"2">>, fitids)
        /\ \E other \in DOMAIN fitid : other # key /\ fitid[other] = 0

\* the rows of account a with the given fate
RowsWithFate(a, f) == {i \in 1..Len(fate) : transactions[i].account = a /\ fate[i] = f}

\* the override counts of the emitted rows of account a among the first n rows
RECURSIVE EmittedOverrides(_, _)
EmittedOverrides(a, n) ==
    IF n = 0 THEN 0
    ELSE EmittedOverrides(a, n - 1)
         + (IF transactions[n].account = a /\ fate[n] = "emitted"
            THEN transactions[n].nr_overrides ELSE 0)

RECURSIVE SumTotal(_)
SumTotal(ledger) == IF ledger = <<>> THEN 0 ELSE Head(ledger).txn_ctr + SumTotal(Tail(ledger))

\* C17: in every state every ledger has total = skipped + processed, skipped
\* and processed count the rows of the account skipped and emitted so far, and
\* the override total is the sum of the override counts of its emitted rows;
\* after the run the totals add up to the number of mapped transactions and
\* the total of an account is the number of its rows
C17_LedgerCounters ==
    /\ \A k \in 1..Len(accounts) :
          LET rec == accounts[k]
          IN  /\ rec.txn_ctr = rec.txn_skip + rec.txn_processed
              /\ rec.txn_skip = Cardinality(RowsWithFate(rec.accNr, "skipped"))
              /\ rec.txn_processed = Cardinality(RowsWithFate(rec.accNr, "emitted"))
              /\ rec.nr_overrides = EmittedOverrides(rec.accNr, Len(fate))
    /\ pc = "done" =>
          /\ SumTotal(accounts) = Len(transactions)
          /\ \A k \in 1..Len(accounts) :
                accounts[k].txn_ctr =
                    Cardinality({i \in Mapped : transactions[i].account = accounts[k].accNr})

C17_Witness ==
    /\ pc = "done"
    /\ \E k \in 1..Len(accounts) :
          /\ accounts[k].txn_skip >= 1
          /\ \E i \in RowsWithFate(accounts[k].accNr, "skipped") :
                transactions[i].nr_overrides = 1
    /\ \E k \in 1..Len(accounts) :
          accounts[k].txn_processed >= 1 /\ accounts[k].nr_overrides >= 1

InPass2 == pc \in {"open", "account", "txns", "footer", "done"}

IsAccountStart(m) == m.msg = "account_start"
IsTxn(m) == m.msg = "txn"

\* the accounts whose statement block was begun, in the order of the file
StartedAccounts ==
    LET starts == SelectSeq(ofxfile, IsAccountStart)
    IN  [k \in 1..Len(starts) |-> starts[k].account]

\* the transactions written, in the order of the file
WrittenTxns ==
    LET txns == SelectSeq(ofxfile, IsTxn)
    IN  [k \in 1..Len(txns) |-> txns[k].trns]

\* the emitted rows of account a among the first n rows, in file order
RECURSIVE EmittedRows(_, _)
EmittedRows(a, n) ==
    IF n = 0 THEN <<>>
    ELSE EmittedRows(a, n - 1)
         \o (IF transactions[n].account = a /\ fate[n] = "emitted"
             THEN <<transactions[n]>> ELSE <<>>)

\* the emitted rows of the first k accounts of the ledger, account by account
RECURSIVE EmittedByAccount(_)
EmittedByAccount(k) ==
    IF k = 0 THEN <<>>
    ELSE EmittedByAccount(k - 1) \o EmittedRows(accounts[k].accNr, Len(fate))

C16_State ==
    InPass2 =>
        \* the ledger holds the accounts of the input once, in first-seen order
        /\ \A k \in 1..Len(accounts) : Observed(accounts[k].accNr)
        /\ \A i \in Mapped : \E k \in 1..Len(accounts) :
              accounts[k].accNr = transactions[i].account
        /\ \A k, l \in 1..Len(accounts) :
              k < l => FirstRow(accounts[k].accNr) < FirstRow(accounts[l].accNr)
        \* the accounts are taken up in that order, each once
        /\ Len(StartedAccounts) <= Len(accounts)
        /\ \A k \in 1..Len(StartedAccounts) : StartedAccounts[k] = accounts[k].accNr
        /\ pc = "done" => Len(StartedAccounts) = Len(accounts)
        \* the rows written are the emitted rows, account by account, in file order
        /\ WrittenTxns = EmittedByAccount(Len(accounts))
        \* the rows of the current account are decided in file order
        /\ pc = "txns" =>
              \A i \in Mapped :
                  transactions[i].account = CurrentAccount =>
                      (fate[i] # "pending" <=> i < tix)
        \* an account is finalized once all its rows are decided, and before
        \* the next account is taken up
        /\ pc # "open" =>
              processed_accounts = {accounts[k].accNr : k \in 1..(cur - 1)}
        /\ \A i \in Mapped :
              transactions[i].account \in processed_accounts => fate[i] # "pending"
        /\ pc = "txns" => Len(StartedAccounts) = cur /\ CurrentAccount \notin processed_accounts
        /\ pc = "account" => Len(StartedAccounts) = cur - 1

C16_Step ==
    /\ \A k \in 1..Len(accounts) :
          accounts[k].accNr \in processed_accounts => accounts'[k] = accounts[k]
    /\ \A i \in 1..Len(fate) :
          transactions[i].account \in processed_accounts => fate'[i] = fate[i]
    /\ Len(ofxfile') >= Len(ofxfile)
    /\ SubSeq(ofxfile', 1, Len(ofxfile)) = ofxfile
    /\ processed_accounts \subseteq processed_accounts'

\* C16: pass 2 takes the accounts in first-seen order, each once; examines the
\* rows of an account in file order and writes its emitted rows in that order;
\* finalizes an account after its last row and before the next account is
\* taken up; and never changes the counters or the written rows of a
\* finalized account afterwards
C16_SingleForwardPass == [] C16_State /\ [][C16_Step]_vars

C16_Witness ==
    /\ pc = "done"
    /\ Len(accounts) >= 2
    /\ \E i, j \in Mapped :
          /\ i < j
          /\ transactions[i].account = transactions[j].account
          /\ transactions[i].account = accounts[2].accNr
          /\ fate[i] = "emitted" /\ fate[j] = "emitted"
    /\ \E i \in Mapped : fate[i] = "skipped"

\* C18: in single-leg mode, of a row on X to Y and a row on Y to X, for any
\* two distinct accounts X and Y of the input, at least one is emitted
C18_NeverBothLegsDropped ==
    (pc = "done" /\ ~ ARGS.homebank) =>
        \A r, s \in Mapped :
            (/\ transactions[r].account # transactions[s].account
             /\ Reciprocal(r, s, transactions[r].account, transactions[s].account)) =>
                fate[r] = "emitted" \/ fate[s] = "emitted"

====
